---- MODULE Spec2Model ----
(***************************************************************************)
(* A model of the CSS cascade resolver of src/src/cascade.ts: the Layer    *)
(* Order Registry, the Property Normalizer (mapPropToPhysical), the        *)
(* Cascade Scorer (getCascadeScore), the sort comparator, the resolver     *)
(* resolveCascadeForElement and the discovery pass getAllCSSRules.         *)
(*                                                                         *)
(* Property names, selectors and values are strings, as in the source;     *)
(* String.prototype.includes is substring containment on them.             *)
(***************************************************************************)
EXTENDS Integers, Sequences, FiniteSets, TLC

VARIABLES
    globalLayerOrderMap,  \* Map<string, number>: layer name -> declared order
    layerOrderCounter,    \* next order index to hand out
    allRules,             \* the corpus handed to resolveCascadeForElement
    analysis,             \* the last call of resolveCascadeForElement and its result
    pair,                 \* scorer: the two candidates last compared
    mapped,               \* normalizer: the last mapPropToPhysical call
    processedSheets,      \* Set<string>: identifiers of the sheets already processed
    passes                \* the calls of getAllCSSRules: local corpus and call stack

vars == <<globalLayerOrderMap, layerOrderCounter, allRules, analysis, pair, mapped,
          processedSheets, passes>>

(***************************************************************************)
(* Generic helpers.                                                        *)
(***************************************************************************)

\* String.prototype.includes
Includes(s, sub) ==
    \E i \in 1..(Len(s) - Len(sub) + 1) : SubSeq(s, i, i + Len(sub) - 1) = sub

\* Array.prototype.includes / some(x => x === v)
InSeq(v, seq) == \E i \in 1..Len(seq) : seq[i] = v

RECURSIVE Flat(_)
\* Array.prototype.flat(1) of an array of arrays
Flat(seqs) == IF seqs = <<>> THEN <<>> ELSE Head(seqs) \o Flat(Tail(seqs))

RECURSIVE Dedup(_)
\* Array(...new Set(list)): first occurrences, in order
Dedup(seq) ==
    IF seq = <<>> THEN <<>>
    ELSE LET init == Dedup(SubSeq(seq, 1, Len(seq) - 1))
             last == seq[Len(seq)]
         IN  IF InSeq(last, init) THEN init ELSE Append(init, last)

(***************************************************************************)
(* Property Normalizer: the logical-property table and its closure.        *)
(***************************************************************************)

Sides4(pre, post) ==
    <<pre \o "top" \o post, pre \o "bottom" \o post,
      pre \o "left" \o post, pre \o "right" \o post>>

Corners4 ==
    <<"border-top-left-radius", "border-bottom-left-radius",
      "border-top-right-radius", "border-bottom-right-radius">>

logicalPropsMaps_ == <<
    <<"block-size", <<"width", "height">> >>,
    <<"inline-size", <<"width", "height">> >>,
    <<"min-block-size", <<"min-width", "min-height">> >>,
    <<"min-inline-size", <<"min-width", "min-height">> >>,
    <<"max-block-size", <<"max-width", "max-height">> >>,
    <<"max-inline-size", <<"max-width", "max-height">> >>,
    <<"margin-block-start", Sides4("margin-", "")>>,
    <<"margin-block-end", Sides4("margin-", "")>>,
    <<"margin-inline-start", Sides4("margin-", "")>>,
    <<"margin-inline-end", Sides4("margin-", "")>>,
    <<"margin-block", <<"margin-block-start", "margin-block-end">> >>,
    <<"margin-inline", <<"margin-inline-start", "margin-inline-end">> >>,
    <<"inset-block-start", Sides4("", "")>>,
    <<"inset-block-end", Sides4("", "")>>,
    <<"inset-inline-start", Sides4("", "")>>,
    <<"inset-inline-end", Sides4("", "")>>,
    <<"inset-block", <<"inset-block-start", "inset-block-end">> >>,
    <<"inset-inline", <<"inset-inline-start", "inset-inline-end">> >>,
    <<"inset", <<"top", "right", "bottom", "left">> >>,
    <<"padding-block-start", Sides4("padding-", "")>>,
    <<"padding-block-end", Sides4("padding-", "")>>,
    <<"padding-inline-start", Sides4("padding-", "")>>,
    <<"padding-inline-end", Sides4("padding-", "")>>,
    <<"padding-block", <<"padding-block-start", "padding-block-end">> >>,
    <<"padding-inline", <<"padding-inline-start", "padding-inline-end">> >>,
    <<"border-block-start-width", Sides4("border-", "-width")>>,
    <<"border-block-end-width", Sides4("border-", "-width")>>,
    <<"border-inline-start-width", Sides4("border-", "-width")>>,
    <<"border-inline-end-width", Sides4("border-", "-width")>>,
    <<"border-block-width", <<"border-block-start-width", "border-block-end-width">> >>,
    <<"border-inline-width", <<"border-inline-start-width", "border-inline-end-width">> >>,
    <<"border-block-start-style", Sides4("border-", "-style")>>,
    <<"border-block-end-style", Sides4("border-", "-style")>>,
    <<"border-inline-start-style", Sides4("border-", "-style")>>,
    <<"border-inline-end-style", Sides4("border-", "-style")>>,
    <<"border-block-style", <<"border-block-start-style", "border-block-end-style">> >>,
    <<"border-inline-style", <<"border-inline-start-style", "border-inline-end-style">> >>,
    <<"border-block-start-color", Sides4("border-", "-color")>>,
    <<"border-block-end-color", Sides4("border-", "-color")>>,
    <<"border-inline-start-color", Sides4("border-", "-color")>>,
    <<"border-inline-end-color", Sides4("border-", "-color")>>,
    <<"border-block-color", <<"border-block-start-color", "border-block-end-color">> >>,
    <<"border-inline-color", <<"border-inline-start-color", "border-inline-end-color">> >>,
    <<"border-block-start", Sides4("border-", "")>>,
    <<"border-block-end", Sides4("border-", "")>>,
    <<"border-inline-start", Sides4("border-", "")>>,
    <<"border-inline-end", Sides4("border-", "")>>,
    <<"border-block", <<"border-block-start", "border-block-end">> >>,
    <<"border-inline", <<"border-inline-start", "border-inline-end">> >>,
    <<"border-start-start-radius", Corners4>>,
    <<"border-start-end-radius", Corners4>>,
    <<"border-end-start-radius", Corners4>>,
    <<"border-end-end-radius", Corners4>> >>

\* logicalPropsMaps.find(map => map[0] === prop): the index of the row, 0 if none
mapFind(maps, prop) ==
    IF \E i \in 1..Len(maps) : maps[i][1] = prop
    THEN CHOOSE i \in 1..Len(maps) :
            /\ maps[i][1] = prop
            /\ \A j \in 1..(i - 1) : maps[j][1] # prop
    ELSE 0

RECURSIVE expandProp(_, _)
\* a name that is no key of the table stays; a key is replaced by the
\* flattened expansion of its entries
expandProp(maps, prop) ==
    LET i == mapFind(maps, prop)
    IN  IF i = 0 THEN <<prop>>
        ELSE Flat([k \in 1..Len(maps[i][2]) |-> expandProp(maps, maps[i][2][k])])

expandLogicalProps(maps) ==
    [i \in 1..Len(maps) |-> <<maps[i][1], Dedup(expandProp(maps, maps[i][1]))>>]

logicalPropsMaps == expandLogicalProps(logicalPropsMaps_)

isLogical(propName) == mapFind(logicalPropsMaps, propName) # 0

(***************************************************************************)
(* The Shorthand Expansion capability (css-shorthand-properties), for the  *)
(* shorthands used here: expand(name, true).flat().                        *)
(***************************************************************************)

shorthandTable == <<
    <<"margin", <<"margin-top", "margin-right", "margin-bottom", "margin-left">> >>,
    <<"padding", <<"padding-top", "padding-right", "padding-bottom", "padding-left">> >>,
    <<"border-top", <<"border-top-width", "border-top-style", "border-top-color">> >>,
    <<"border-right", <<"border-right-width", "border-right-style", "border-right-color">> >>,
    <<"border-bottom", <<"border-bottom-width", "border-bottom-style", "border-bottom-color">> >>,
    <<"border-left", <<"border-left-width", "border-left-style", "border-left-color">> >> >>

isShorthand(propName) == mapFind(shorthandTable, propName) # 0

expandShorthand(propName) == shorthandTable[mapFind(shorthandTable, propName)][2]

(***************************************************************************)
(* mapPropToPhysical.  el is the computed style the function reads:        *)
(* [writingMode, direction, orientation].                                  *)
(***************************************************************************)

undefined == "undefined"

writingModeOf(el) == IF el.writingMode = "" THEN "horizontal-tb" ELSE el.writingMode

isLTR(el) == (IF el.direction = "" THEN "ltr" ELSE el.direction) = "ltr"

isUpright(el) == el.orientation = "upright"

blockStart(el) ==
    LET wm == writingModeOf(el)
    IN  IF wm = "horizontal-tb" THEN "top"
        ELSE IF wm = "vertical-rl" THEN "right"
        ELSE IF wm = "sideways-rl" THEN "right"
        ELSE IF wm = "vertical-lr" THEN "left"
        ELSE IF wm = "sideways-lr" THEN "left"
        ELSE undefined

\* mutant of inlineStart: the direction is not consulted in horizontal-tb
inlineStartLeft(el) ==
    LET wm == writingModeOf(el)
    IN  IF wm = "horizontal-tb" THEN "left"
        ELSE IF wm = "vertical-rl"
             THEN (IF isLTR(el) \/ isUpright(el) THEN "top" ELSE "bottom")
        ELSE IF wm = "sideways-rl" THEN (IF isLTR(el) THEN "top" ELSE "bottom")
        ELSE IF wm = "vertical-lr"
             THEN (IF isLTR(el) \/ isUpright(el) THEN "top" ELSE "bottom")
        ELSE IF wm = "sideways-lr" THEN (IF isLTR(el) THEN "bottom" ELSE "top")
        ELSE undefined

inlineStart(el) ==
    LET wm == writingModeOf(el)
    IN  IF wm = "horizontal-tb" THEN (IF isLTR(el) THEN "left" ELSE "right")
        ELSE IF wm = "vertical-rl"
             THEN (IF isLTR(el) \/ isUpright(el) THEN "top" ELSE "bottom")
        ELSE IF wm = "sideways-rl" THEN (IF isLTR(el) THEN "top" ELSE "bottom")
        ELSE IF wm = "vertical-lr"
             THEN (IF isLTR(el) \/ isUpright(el) THEN "top" ELSE "bottom")
        ELSE IF wm = "sideways-lr" THEN (IF isLTR(el) THEN "bottom" ELSE "top")
        ELSE undefined

\* oppositeDir throws on anything but the four sides: dirThrows says when
dirThrows(dir) == dir \notin {"top", "bottom", "left", "right"}

oppositeDir(dir) ==
    IF dir = "top" THEN "bottom"
    ELSE IF dir = "bottom" THEN "top"
    ELSE IF dir = "left" THEN "right"
    ELSE IF dir = "right" THEN "left"
    ELSE undefined

\* match(paramName, dir); an undefined dir falls through both ifs (falsy)
match(paramName, dir) ==
    IF dir = "left" \/ dir = "right"
    THEN Includes(paramName, dir) \/ Includes(paramName, "width")
    ELSE IF dir = "top" \/ dir = "bottom"
    THEN Includes(paramName, dir) \/ Includes(paramName, "height")
    ELSE FALSE

\* the callback of physicalProps.filter, when it returns
filterKeeps(logical, physical, bs, is) ==
    IF Includes(logical, "block-start") THEN match(physical, bs)
    ELSE IF Includes(logical, "block-end") THEN match(physical, oppositeDir(bs))
    ELSE IF Includes(logical, "inline-start") THEN match(physical, is)
    ELSE IF Includes(logical, "inline-end") THEN match(physical, oppositeDir(is))
    ELSE IF Includes(logical, "start-start")
         THEN match(physical, bs) /\ match(physical, is)
    ELSE IF Includes(logical, "start-end")
         THEN match(physical, bs) /\ match(physical, oppositeDir(is))
    ELSE IF Includes(logical, "end-start")
         THEN match(physical, oppositeDir(bs)) /\ match(physical, is)
    ELSE IF Includes(logical, "end-end")
         THEN match(physical, oppositeDir(bs)) /\ match(physical, oppositeDir(is))
    ELSE IF Includes(logical, "block")
         THEN match(physical, bs) \/ match(physical, oppositeDir(bs))
    ELSE IF Includes(logical, "inline")
         THEN match(physical, is) \/ match(physical, oppositeDir(is))
    ELSE TRUE

\* the callback of physicalProps.filter throws: it reaches a call of
\* oppositeDir on an unset direction (&& and || short-circuit)
filterThrows(logical, physical, bs, is) ==
    IF Includes(logical, "block-start") THEN FALSE
    ELSE IF Includes(logical, "block-end") THEN dirThrows(bs)
    ELSE IF Includes(logical, "inline-start") THEN FALSE
    ELSE IF Includes(logical, "inline-end") THEN dirThrows(is)
    ELSE IF Includes(logical, "start-start") THEN FALSE
    ELSE IF Includes(logical, "start-end")
         THEN match(physical, bs) /\ dirThrows(is)
    ELSE IF Includes(logical, "end-start") THEN dirThrows(bs)
    ELSE IF Includes(logical, "end-end")
         THEN dirThrows(bs) \/ (match(physical, oppositeDir(bs)) /\ dirThrows(is))
    ELSE IF Includes(logical, "block")
         THEN ~match(physical, bs) /\ dirThrows(bs)
    ELSE IF Includes(logical, "inline")
         THEN ~match(physical, is) /\ dirThrows(is)
    ELSE FALSE

physicalPropsOf(propName) == logicalPropsMaps[mapFind(logicalPropsMaps, propName)][2]

\* mapPropToPhysical raises the Error of oppositeDir
mapPropThrows(propName, el) ==
    /\ isLogical(propName)
    /\ \E k \in 1..Len(physicalPropsOf(propName)) :
          filterThrows(propName, physicalPropsOf(propName)[k],
                       blockStart(el), inlineStart(el))

\* mapPropToPhysical, when it returns
mapPropToPhysical(propName, el) ==
    IF ~isLogical(propName)
    THEN IF isShorthand(propName) THEN expandShorthand(propName) ELSE <<propName>>
    ELSE LET bs == blockStart(el)
             is == inlineStart(el)
             Keep(physical) == filterKeeps(propName, physical, bs, is)
         IN  SelectSeq(physicalPropsOf(propName), Keep)

(***************************************************************************)
(* JavaScript numbers, as far as the scorer and the comparator use them:   *)
(* finite integers, +Infinity, -Infinity and NaN.                          *)
(***************************************************************************)

Fin(n) == [inf |-> 0, n |-> n]

Infinity == [inf |-> 1, n |-> 0]

NegInfinity == [inf |-> -1, n |-> 0]

NaN == [inf |-> 2, n |-> 0]

\* x - y
numMinus(x, y) ==
    IF x.inf = 2 \/ y.inf = 2 THEN NaN
    ELSE IF x.inf = 0 /\ y.inf = 0 THEN Fin(x.n - y.n)
    ELSE IF x.inf = y.inf THEN NaN
    ELSE IF x.inf # 0 THEN x
    ELSE IF y.inf = 1 THEN NegInfinity ELSE Infinity

\* x > y (false when either is NaN)
numGreater(x, y) ==
    /\ x.inf # 2 /\ y.inf # 2
    /\ \/ x.inf > y.inf
       \/ x.inf = 0 /\ y.inf = 0 /\ x.n > y.n

\* what Array.prototype.sort makes of a comparator's result: its sign, and
\* NaN counts as +0
numSign(x) ==
    IF x.inf = 2 THEN 0
    ELSE IF x.inf = 1 THEN 1
    ELSE IF x.inf = -1 THEN -1
    ELSE IF x.n > 0 THEN 1 ELSE IF x.n < 0 THEN -1 ELSE 0

(***************************************************************************)
(* Layer Order Registry.                                                   *)
(***************************************************************************)

\* globalLayerOrderMap.has(name)
layerHas(name) == name \in DOMAIN globalLayerOrderMap

\* globalLayerOrderMap.size
totalLayersOf == Cardinality(DOMAIN globalLayerOrderMap)

(***************************************************************************)
(* Cascade Scorer.  A candidate carries important, layerName, _ruleOrigin, *)
(* specificity and _ruleOrderIndex.                                        *)
(***************************************************************************)

Origins == {"user-agent", "user", "author", "inline", "animation", "transition"}

\* const layerOrder = prop.layerName ? globalLayerOrderMap.get(...) : undefined,
\* as [isLayered, layerOrder]
layerOrderOf(prop) ==
    IF prop.layerName # undefined /\ prop.layerName # "" /\ layerHas(prop.layerName)
    THEN [isLayered |-> TRUE, layerOrder |-> globalLayerOrderMap[prop.layerName]]
    ELSE [isLayered |-> FALSE, layerOrder |-> 0]

\* mutant of INC: bands as wide as the number of layers, no gap
INCNoGap(totalLayers) == totalLayers

\* const INC = totalLayers + 1
INC(totalLayers) == totalLayers + 1

\* mutant of transitionScore: transitions scored like an unknown origin
transitionScoreZero(isImportant) == Fin(0)

\* origin === "transition"
transitionScore(isImportant) == IF isImportant THEN Infinity ELSE NegInfinity

\* mutant of authorImportantBonus: later layers win among important ones too
authorImportantBonusLater(lo, totalLayers) ==
    IF lo.isLayered THEN lo.layerOrder + 1 ELSE 0

\* the layer bonus of an author !important declaration
authorImportantBonus(lo, totalLayers) ==
    IF lo.isLayered THEN totalLayers - lo.layerOrder ELSE 0

\* mutant of authorNormalBonus: unlayered normal declarations get no bonus
authorNormalBonusFlat(lo, totalLayers) ==
    IF lo.isLayered THEN lo.layerOrder ELSE 0

\* the layer bonus of an author normal declaration
authorNormalBonus(lo, totalLayers) ==
    IF lo.isLayered THEN lo.layerOrder ELSE INC(totalLayers)

\* mutant of importantBand: important animations below normal animations
importantBandAnimationLow(origin) ==
    IF origin = "user-agent" THEN 11
    ELSE IF origin = "user" THEN 10
    ELSE IF origin = "inline" THEN 9
    ELSE IF origin = "author" THEN 8
    ELSE IF origin = "animation" THEN 5
    ELSE 0

\* the multiplier of INC of an !important declaration
importantBand(origin) ==
    IF origin = "user-agent" THEN 11
    ELSE IF origin = "user" THEN 10
    ELSE IF origin = "inline" THEN 9
    ELSE IF origin = "author" THEN 8
    ELSE IF origin = "animation" THEN 7
    ELSE 0

\* mutant of normalBand: author normal declarations in the user band
normalBandAuthorLow(origin) ==
    IF origin = "animation" THEN 6
    ELSE IF origin = "inline" THEN 5
    ELSE IF origin = "author" THEN 2
    ELSE IF origin = "user" THEN 2
    ELSE IF origin = "user-agent" THEN 1
    ELSE 0

\* the multiplier of INC of a normal declaration
normalBand(origin) ==
    IF origin = "animation" THEN 6
    ELSE IF origin = "inline" THEN 5
    ELSE IF origin = "author" THEN 3
    ELSE IF origin = "user" THEN 2
    ELSE IF origin = "user-agent" THEN 1
    ELSE 0

\* mutant of getCascadeScore: the layer bonus is given to every origin
getCascadeScoreLayerAnyOrigin(prop) ==
    LET origin == prop._ruleOrigin
        lo == layerOrderOf(prop)
        totalLayers == totalLayersOf
    IN  IF origin = "transition" THEN transitionScore(prop.important)
        ELSE IF prop.important
        THEN Fin(INC(totalLayers) * importantBand(origin)
                 + authorImportantBonus(lo, totalLayers))
        ELSE Fin(INC(totalLayers) * normalBand(origin)
                 + (IF lo.isLayered THEN authorNormalBonus(lo, totalLayers) ELSE 0))

getCascadeScore(prop) ==
    LET origin == prop._ruleOrigin
        lo == layerOrderOf(prop)
        totalLayers == totalLayersOf
    IN  IF origin = "transition" THEN transitionScore(prop.important)
        ELSE IF prop.important
        THEN Fin(INC(totalLayers) * importantBand(origin)
                 + (IF origin = "author"
                    THEN authorImportantBonus(lo, totalLayers) ELSE 0))
        ELSE Fin(INC(totalLayers) * normalBand(origin)
                 + (IF origin = "author"
                    THEN authorNormalBonus(lo, totalLayers) ELSE 0))

(***************************************************************************)
(* The sort comparator of resolveCascadeForElement.                        *)
(***************************************************************************)

noSpecificity == <<>>     \* a declaration with no specificity field

RECURSIVE specificityFrom(_, _, _)
\* the reduce of specificityGreater from component i on
specificityFrom(spec1, spec2, i) ==
    IF i > Len(spec1) THEN "null"
    ELSE IF spec1[i] > spec2[i] THEN "true"
    ELSE IF spec1[i] < spec2[i] THEN "false"
    ELSE specificityFrom(spec1, spec2, i + 1)

\* mutant of specificityGreater: the ID count is not compared
specificityGreaterNoId(spec1, spec2) ==
    IF spec1[1] # spec2[1] THEN (IF spec1[1] > spec2[1] THEN "true" ELSE "false")
    ELSE specificityFrom(spec1, spec2, 3)

\* "true" when spec1 is greater, "false" when spec2 is, "null" when equal
specificityGreater(spec1, spec2) == specificityFrom(spec1, spec2, 1)

\* mutant of orderOfAppearance: the earlier rule wins
orderOfAppearanceEarlier(a, b) == numMinus(a._ruleOrderIndex, b._ruleOrderIndex)

\* b._ruleOrderIndex - a._ruleOrderIndex
orderOfAppearance(a, b) == numMinus(b._ruleOrderIndex, a._ruleOrderIndex)

\* the comparator handed to declarations.sort: negative puts a first
compareDeclarations(a, b) ==
    LET scoreA == getCascadeScore(a)
        scoreB == getCascadeScore(b)
        isAGreater == IF a.specificity # noSpecificity /\ b.specificity # noSpecificity
                      THEN specificityGreater(a.specificity, b.specificity)
                      ELSE "null"
    IN  IF scoreA # scoreB THEN numMinus(scoreB, scoreA)
        ELSE IF isAGreater # "null"
        THEN (IF isAGreater = "true" THEN Fin(-1) ELSE Fin(1))
        ELSE orderOfAppearance(a, b)

\* one step of a stable sort: x goes before the first element it strictly
\* precedes, after every element it ties with
RECURSIVE insertSorted(_, _)
insertSorted(sorted, x) ==
    IF sorted = <<>> THEN <<x>>
    ELSE IF numSign(compareDeclarations(x, Head(sorted))) < 0
         THEN <<x>> \o sorted
         ELSE <<Head(sorted)>> \o insertSorted(Tail(sorted), x)

\* Array.prototype.sort with compareDeclarations: the comparator is a
\* lexicographic order on (score, specificity, orderIndex), so the result is
\* the stable sort, whatever algorithm the engine runs
RECURSIVE sortDeclarations(_)
sortDeclarations(declarations) ==
    IF declarations = <<>> THEN <<>>
    ELSE insertSorted(sortDeclarations(SubSeq(declarations, 1, Len(declarations) - 1)),
                      declarations[Len(declarations)])

(***************************************************************************)
(* Rules, declarations and the element.                                    *)
(*                                                                         *)
(* An element is what the resolver reads of it:                            *)
(*   matches      the selectors element.matches() accepts                  *)
(*   style        the inline declarations [name, value, priority]          *)
(*   writingMode, direction, orientation   its computed style              *)
(*   media, supports   the condition texts that currently hold             *)
(*   computed     its computed style, as a list of [name, value]           *)
(*   ancestors    the computed styles of its ancestors, nearest first      *)
(***************************************************************************)

undefinedNum == [inf |-> 3, n |-> 0]   \* an absent numeric field

noOvershadow == [ruleSelector |-> undefined, layerName |-> undefined]

\* a declaration as processCSSRules records it (properties.push)
ruleProperty(name, value, important, source, layerName, specificity) ==
    [name |-> name, value |-> value, important |-> important, active |-> FALSE,
     inherited |-> FALSE, source |-> source, layerName |-> layerName,
     specificity |-> specificity, originalPropertyName |-> name,
     overshadowedBy |-> noOvershadow]

\* calculateSpecificity for the selectors used here: [0, a, b, c]
calculateSpecificity(selector) ==
    IF selector = "#b" THEN <<0, 1, 0, 0>>
    ELSE IF selector = ".a" THEN <<0, 0, 1, 0>>
    ELSE IF selector = "p" THEN <<0, 0, 0, 1>>
    ELSE <<0, 0, 0, 0>>

\* getInlineStylesForElement: the synthetic rule, or no rule
hasInlineStyles(el) == Len(el.style) # 0

getInlineStylesForElement(el) ==
    [selector |-> "[inline]",
     specificity |-> <<1, 0, 0, 0>>,
     properties |-> [i \in 1..Len(el.style) |->
         ruleProperty(el.style[i].name, el.style[i].value,
                      el.style[i].priority = "important", "inline",
                      undefined, noSpecificity)],
     stylesheetUrl |-> "inline",
     layerName |-> undefined,
     origin |-> "inline",
     orderIndex |-> Infinity,
     conditionalContexts |-> <<>>]

\* evaluateMediaQuery / evaluateSupportsQuery / evaluateContainerQuery
evaluateContext(context, el) ==
    IF context.type = "media" THEN context.condition \in el.media
    ELSE IF context.type = "supports" THEN context.condition \in el.supports
    ELSE IF context.type = "container" THEN TRUE
    ELSE IF context.type = "none" THEN TRUE
    ELSE FALSE

\* mutant of areConditionalContextsMet: one context that holds is enough
areConditionalContextsMetSome(contexts, el) ==
    \E i \in 1..Len(contexts) : evaluateContext(contexts[i], el)

areConditionalContextsMet(contexts, el) ==
    \A i \in 1..Len(contexts) : evaluateContext(contexts[i], el)

\* element.matches(selector) throws a SyntaxError on a malformed selector
InvalidSelectors == {"p:"}

\* mutant of ruleMatches: a malformed selector is not skipped
ruleMatchesMalformed(el, rule) ==
    /\ rule.selector \in el.matches \cup InvalidSelectors
    /\ areConditionalContextsMet(rule.conditionalContexts, el)

\* the callback of allRules.filter: a throw of element.matches is caught and
\* the rule is left out
ruleMatches(el, rule) ==
    /\ rule.selector \notin InvalidSelectors
    /\ rule.selector \in el.matches
    /\ areConditionalContextsMet(rule.conditionalContexts, el)

getMatchingRulesForElement(el, rules) ==
    LET Keep(rule) == ruleMatches(el, rule)
    IN  SelectSeq(rules, Keep)

(***************************************************************************)
(* expandProperty and the collection of candidates.                        *)
(***************************************************************************)

createPhysicalPropInfo(originalProp, physicalName) ==
    [name |-> physicalName, value |-> originalProp.value,
     important |-> originalProp.important, active |-> FALSE, inherited |-> FALSE,
     source |-> originalProp.source, layerName |-> originalProp.layerName,
     specificity |-> originalProp.specificity,
     originalPropertyName |-> originalProp.name,
     overshadowedBy |-> noOvershadow,
     _ruleOrderIndex |-> undefinedNum, _ruleOrigin |-> undefined]

expandProperty(originalProp, el) ==
    LET names == mapPropToPhysical(originalProp.name, el)
    IN  [k \in 1..Len(names) |-> createPhysicalPropInfo(originalProp, names[k])]

\* the candidates one rule contributes: every expanded declaration, stamped
\* with the rule's orderIndex, origin and specificity
candidatesOfRule(rule, el) ==
    Flat([i \in 1..Len(rule.properties) |->
        LET expandedProps == expandProperty(rule.properties[i], el)
        IN  [k \in 1..Len(expandedProps) |->
                [expandedProps[k] EXCEPT !._ruleOrderIndex = rule.orderIndex,
                                         !._ruleOrigin = rule.origin,
                                         !.specificity = rule.specificity]]])

\* every candidate, in the order the two forEach loops push them
allCandidates(rules, el) ==
    Flat([r \in 1..Len(rules) |-> candidatesOfRule(rules[r], el)])

\* the keys of propertiesToConsider, in insertion order
consideredNames(cands) == Dedup([i \in 1..Len(cands) |-> cands[i].name])

\* propertiesToConsider[propName]
consideredFor(cands, propName) ==
    LET Keep(c) == c.name = propName
    IN  SelectSeq(cands, Keep)

\* some declaration of the matching rules makes mapPropToPhysical throw
expansionThrows(rules, el) ==
    \E r \in 1..Len(rules) : \E i \in 1..Len(rules[r].properties) :
        mapPropThrows(rules[r].properties[i].name, el)

(***************************************************************************)
(* Winner selection and the marking of the losers.                         *)
(***************************************************************************)

\* declarations[i].active = false; declarations[i].overshadowedBy = {...}
markOvershadowed(decl) ==
    [decl EXCEPT !.active = FALSE,
                 !.overshadowedBy =
                     [ruleSelector |-> IF decl.originalPropertyName \notin {undefined, ""}
                                       THEN decl.originalPropertyName ELSE decl.name,
                      layerName |-> decl.layerName]]

\* the sorted list of one property after the marking loop
resolvedList(declarations) ==
    LET sorted == sortDeclarations(declarations)
    IN  [i \in 1..Len(sorted) |->
            IF i = 1 THEN sorted[i] ELSE markOvershadowed(sorted[i])]

\* finalProperties[propName] = {...winningDeclaration, active: true}
winnerEntry(declarations) ==
    [sortDeclarations(declarations)[1] EXCEPT !.active = TRUE]

\* finalProperties after the cascade loop, as its entries in insertion order
cascadeWinners(cands) ==
    LET names == consideredNames(cands)
    IN  [k \in 1..Len(names) |-> winnerEntry(consideredFor(cands, names[k]))]

(***************************************************************************)
(* Inheritance fallback.                                                   *)
(***************************************************************************)

inheritableProps ==
    {"azimuth", "border-collapse", "border-spacing", "caption-side", "color",
     "cursor", "direction", "empty-cells", "font-family", "font-size",
     "font-style", "font-variant", "font-weight", "font", "letter-spacing",
     "line-height", "list-style-image", "list-style-position",
     "list-style-type", "list-style", "orphans", "quotes", "tab-size",
     "text-align", "text-indent", "text-transform", "visibility",
     "white-space", "widows", "word-break", "word-spacing", "word-wrap"}

\* mutant of isInheritableProperty: every property inherits
isInheritablePropertyAny(prop) == TRUE

isInheritableProperty(prop) == prop \in inheritableProps

\* CSSStyleDeclaration.getPropertyValue: "" when the property is not set
getPropertyValue(computed, propName) ==
    IF \E i \in 1..Len(computed) : computed[i].name = propName
    THEN computed[CHOOSE i \in 1..Len(computed) : computed[i].name = propName].value
    ELSE ""

\* the index of the first ancestor whose value of propName is set, is not
\* initial/unset and equals the element's value; 0 when the walk finds none
inheritanceSource(el, propName) ==
    LET own == getPropertyValue(el.computed, propName)
        Provides(k) ==
            LET inheritedValue == getPropertyValue(el.ancestors[k], propName)
            IN  /\ inheritedValue \notin {"", "initial", "unset"}
                /\ inheritedValue = own
    IN  IF \E k \in 1..Len(el.ancestors) : Provides(k)
        THEN CHOOSE k \in 1..Len(el.ancestors) :
                Provides(k) /\ \A j \in 1..(k - 1) : ~Provides(j)
        ELSE 0

hasEntry(entries, propName) == \E i \in 1..Len(entries) : entries[i].name = propName

inheritedEntry(propName, value) ==
    [name |-> propName, value |-> value, important |-> FALSE, active |-> TRUE,
     inherited |-> TRUE, source |-> "inherited from ancestor",
     layerName |-> undefined, specificity |-> noSpecificity,
     originalPropertyName |-> undefined, overshadowedBy |-> noOvershadow,
     _ruleOrderIndex |-> undefinedNum, _ruleOrigin |-> undefined]

RECURSIVE withInherited(_, _, _)
\* the loop over computedBrowserStyles from index i on
withInherited(entries, el, i) ==
    IF i > Len(el.computed) THEN entries
    ELSE LET propName == el.computed[i].name
             own == getPropertyValue(el.computed, propName)
             src == inheritanceSource(el, propName)
         IN  IF /\ ~hasEntry(entries, propName)
                /\ isInheritableProperty(propName)
                /\ own # "initial" /\ own # "unset"
                /\ src # 0
             THEN withInherited(
                      Append(entries,
                             inheritedEntry(propName,
                                 getPropertyValue(el.ancestors[src], propName))),
                      el, i + 1)
             ELSE withInherited(entries, el, i + 1)

(***************************************************************************)
(* updatedMatchingRules: the rule-level stamps.                            *)
(***************************************************************************)

\* Object.entries(finalProperties).find(...): the index of the first entry
\* whose originalPropertyName is the declared name, 0 when there is none
finalPropFor(entries, prop) ==
    IF \E i \in 1..Len(entries) : entries[i].originalPropertyName = prop.name
    THEN CHOOSE i \in 1..Len(entries) :
            /\ entries[i].originalPropertyName = prop.name
            /\ \A j \in 1..(i - 1) : entries[j].originalPropertyName # prop.name
    ELSE 0

\* spec?.[i]: -1 stands for undefined
specComponent(spec, i) == IF spec = noSpecificity THEN -1 ELSE spec[i]

isWinningDeclaration(finalProp, prop, rule) ==
    /\ finalProp.value = prop.value
    /\ finalProp.important = prop.important
    /\ finalProp.source = prop.source
    /\ finalProp.layerName = prop.layerName
    /\ finalProp._ruleOrderIndex = rule.orderIndex
    /\ \A i \in 1..4 :
          specComponent(prop.specificity, i) = specComponent(finalProp.specificity, i)
    /\ prop.originalPropertyName = finalProp.originalPropertyName

updatedProperty(entries, prop, rule) ==
    LET f == finalPropFor(entries, prop)
    IN  IF f # 0 /\ isWinningDeclaration(entries[f], prop, rule)
        THEN [prop EXCEPT !.active = TRUE]
        ELSE [prop EXCEPT !.active = FALSE,
                          !.overshadowedBy =
                              IF f # 0
                              THEN [ruleSelector |-> rule.selector,
                                    layerName |-> entries[f].layerName]
                              ELSE noOvershadow]

updatedMatchingRules(entries, rules) ==
    [r \in 1..Len(rules) |->
        [rules[r] EXCEPT !.properties =
            [i \in 1..Len(rules[r].properties) |->
                updatedProperty(entries, rules[r].properties[i], rules[r])]]]

(***************************************************************************)
(* resolveCascadeForElement.                                               *)
(***************************************************************************)

\* mutant of matchingRulesOf: the inline rule is put first
matchingRulesOfInlineFirst(el, rules) ==
    LET matching == getMatchingRulesForElement(el, rules)
    IN  IF hasInlineStyles(el)
        THEN <<getInlineStylesForElement(el)>> \o matching
        ELSE matching

\* matchingRules after the inline rule is appended
matchingRulesOf(el, rules) ==
    LET matching == getMatchingRulesForElement(el, rules)
    IN  IF hasInlineStyles(el)
        THEN Append(matching, getInlineStylesForElement(el))
        ELSE matching

idleAnalysis == [status |-> "idle"]

\* what the call returns, or that it threw; considered holds the sorted and
\* marked candidate lists the call leaves behind, one per property
resolveCascadeForElement(el, rules) ==
    LET matchingRules == matchingRulesOf(el, rules)
    IN  IF expansionThrows(matchingRules, el)
        THEN [status |-> "threw"]
        ELSE LET cands == allCandidates(matchingRules, el)
                 names == consideredNames(cands)
                 finalProperties == withInherited(cascadeWinners(cands), el, 1)
             IN  [status |-> "returned",
                  matchingRules |-> updatedMatchingRules(finalProperties, matchingRules),
                  finalProperties |-> finalProperties,
                  considered |-> [k \in 1..Len(names) |->
                                     resolvedList(consideredFor(cands, names[k]))]]

(***************************************************************************)
(* What a call of resolveCascadeForElement leaves in the shared state.     *)
(***************************************************************************)

\* allRules.filter(...) returns a new array: matchingRules.push(inlineStyles)
\* grows that array, not the corpus
matchingRulesIsNewArray == TRUE

\* mutant of candidateIsNewObject: the candidate is the declaration itself
candidateIsAlias == FALSE

\* propertiesToConsider[...].push({...expandedProp, ...}) pushes a new object
\* built from the new object of createPhysicalPropInfo: the marking loop
\* writes to it and to no declaration of the corpus
candidateIsNewObject == TRUE

\* declaration i of rule r has a candidate the marking loop writes to
declarationLost(el, rules, r, i) ==
    /\ ruleMatches(el, rules[r])
    /\ LET cands == allCandidates(matchingRulesOf(el, rules), el)
           names == consideredNames(cands)
       IN  \E k \in 1..Len(names) :
               LET sorted == sortDeclarations(consideredFor(cands, names[k]))
               IN  \E j \in 2..Len(sorted) :
                       /\ sorted[j]._ruleOrderIndex = rules[r].orderIndex
                       /\ sorted[j].originalPropertyName = rules[r].properties[i].name
                       /\ sorted[j].value = rules[r].properties[i].value

\* the corpus array after the call
corpusAfterResolve(el, rules) ==
    LET marked ==
            IF candidateIsNewObject THEN rules
            ELSE [r \in 1..Len(rules) |->
                     [rules[r] EXCEPT !.properties =
                         [i \in 1..Len(rules[r].properties) |->
                             IF declarationLost(el, rules, r, i)
                             THEN markOvershadowed(rules[r].properties[i])
                             ELSE rules[r].properties[i]]]]
    IN  IF matchingRulesIsNewArray \/ ~hasInlineStyles(el)
        THEN marked
        ELSE Append(marked, getInlineStylesForElement(el))

\* mutant of registryAfterResolve: the call clears the registry
registryAfterResolveCleared == <<>>

\* the registry after the call: getCascadeScore only reads it (get, size)
registryAfterResolve == globalLayerOrderMap

(***************************************************************************)
(* Bounds and input sets.                                                  *)
(***************************************************************************)

MaxRules == 2             \* rules in a corpus

MaxLayers == 3            \* layers in the registry of the scorer runs

LayerPool == <<"L1", "L2", "L3", "L4">>

LayerNames == {LayerPool[i] : i \in 1..MaxLayers}

\* the layers of the corpora that are resolved
CorpusLayers == {"L1"}

Selectors == {".a", "#b"}

\* the origins of the rules of a resolved corpus
RuleOrigins == {"author", "transition"}

Decl(name, value, important) == [name |-> name, value |-> value, important |-> important]

\* the declaration blocks of the rules of a resolved corpus
DeclLists ==
    {<<Decl("margin", "1px", FALSE)>>,
     <<Decl("margin-left", "2px", FALSE)>>,
     <<Decl("margin-left", "2px", TRUE)>>,
     <<Decl("margin-left", "1px", FALSE), Decl("margin-inline-start", "2px", FALSE)>>}

InlineDecl(name, value, priority) == [name |-> name, value |-> value, priority |-> priority]

plainElement ==
    [matches |-> Selectors, style |-> <<>>,
     writingMode |-> "horizontal-tb", direction |-> "ltr", orientation |-> "mixed",
     media |-> {}, supports |-> {}, computed |-> <<>>, ancestors |-> <<>>]

\* the elements that are resolved
Elements ==
    {plainElement,
     [plainElement EXCEPT !.direction = "rtl",
         !.computed = <<[name |-> "color", value |-> "red"],
                        [name |-> "margin-left", value |-> "0px"]>>,
         !.ancestors = << <<[name |-> "color", value |-> "blue"]>>,
                          <<[name |-> "color", value |-> "red"]>> >>],
     [plainElement EXCEPT !.style = <<InlineDecl("margin-inline-start", "3px", ""),
                                      InlineDecl("margin-left", "4px", "")>>]}

\* the specificities and order indices of the candidates the scorer compares
ScoreSpecificities == {<<0, 0, 1, 0>>, <<0, 1, 0, 0>>}

ScoreOrderIndices == {Fin(0), Fin(1)}

ScoreCandidates ==
    [important : BOOLEAN, layerName : {undefined} \cup LayerNames,
     _ruleOrigin : Origins, specificity : ScoreSpecificities,
     _ruleOrderIndex : ScoreOrderIndices]

\* the computed styles mapPropToPhysical is called with
WritingModes == {"horizontal-tb", "vertical-rl", "sideways-rl", "vertical-lr", "sideways-lr"}

MapElements ==
    [writingMode : WritingModes \cup {"", "tb"}, direction : {"ltr", "rtl"},
     orientation : {"mixed", "upright", "sideways"}]

\* the property names mapPropToPhysical is called with
MapNames ==
    {logicalPropsMaps_[i][1] : i \in 1..Len(logicalPropsMaps_)}
        \cup {"margin", "margin-left", "color", "width"}

\* a conditional context as processCSSRules pushes it
Context(type, condition, applies) ==
    [type |-> type, condition |-> condition, applies |-> applies]

\* the rules of the corpora whose matching is examined
MatchRules ==
    {[selector |-> ".a", decls |-> <<Decl("margin-left", "1px", FALSE)>>,
      layerName |-> undefined, contexts |-> <<>>],
     [selector |-> "#b", decls |-> <<Decl("margin", "2px", FALSE)>>,
      layerName |-> "L1", contexts |-> <<>>],
     [selector |-> ".a", decls |-> <<Decl("margin-left", "3px", FALSE)>>,
      layerName |-> undefined, contexts |-> <<Context("media", "m1", TRUE)>>],
     [selector |-> "#b", decls |-> <<Decl("margin-left", "4px", FALSE)>>,
      layerName |-> undefined,
      contexts |-> <<Context("media", "m1", TRUE), Context("supports", "s1", TRUE)>>],
     [selector |-> "p:", decls |-> <<Decl("margin-left", "5px", TRUE)>>,
      layerName |-> undefined, contexts |-> <<>>]}

\* the elements they are resolved for
MatchElements ==
    {[plainElement EXCEPT !.media = {"m1"}, !.supports = {"s1"}],
     [plainElement EXCEPT !.matches = {"#b"}, !.supports = {"s1"}],
     [plainElement EXCEPT !.media = {"m1"}]}

\* the rules of the corpora resolved for the elements of CaseElements: an
\* inheritable property, a logical property, a rule of a container block
\* (recorded with applies: false, cascade.ts:276-285) and a second selector
CaseRules ==
    {[selector |-> ".a", decls |-> <<Decl("color", "green", FALSE)>>,
      layerName |-> undefined, contexts |-> <<>>],
     [selector |-> ".a", decls |-> <<Decl("margin-block-end", "6px", FALSE)>>,
      layerName |-> undefined, contexts |-> <<>>],
     [selector |-> ".a", decls |-> <<Decl("margin-left", "7px", FALSE)>>,
      layerName |-> undefined, contexts |-> <<Context("container", "c1", FALSE)>>],
     [selector |-> "#b", decls |-> <<Decl("cursor", "default", FALSE)>>,
      layerName |-> undefined, contexts |-> <<>>]}

ComputedValue(name, value) == [name |-> name, value |-> value]

\* elements with computed styles and ancestors, with a writing-mode outside
\* the mapping table, and with inline declarations
CaseElements ==
    {[plainElement EXCEPT
         !.computed = <<ComputedValue("color", "red"),
                        ComputedValue("margin-left", "0px"),
                        ComputedValue("visibility", "initial"),
                        ComputedValue("cursor", "pointer"),
                        ComputedValue("font-size", "12px")>>,
         !.ancestors = << <<ComputedValue("color", "blue"),
                            ComputedValue("margin-left", "0px"),
                            ComputedValue("visibility", "initial"),
                            ComputedValue("font-size", "14px")>>,
                          <<ComputedValue("color", "red"),
                            ComputedValue("cursor", "pointer"),
                            ComputedValue("font-size", "unset")>> >>],
     [plainElement EXCEPT !.matches = {".a"}, !.writingMode = "vertical-rl",
         !.computed = <<ComputedValue("color", "red"),
                        ComputedValue("text-align", "unset")>>,
         !.ancestors = << <<ComputedValue("color", "red"),
                            ComputedValue("text-align", "unset")>> >>],
     [plainElement EXCEPT !.writingMode = "tb"],
     [plainElement EXCEPT
         !.style = <<InlineDecl("color", "black", "important"),
                     InlineDecl("margin-left", "4px", "")>>,
         !.computed = <<ComputedValue("color", "black")>>,
         !.ancestors = << <<ComputedValue("color", "black")>> >>],
     [plainElement EXCEPT !.matches = {"#b"},
         !.style = <<InlineDecl("margin-block-end", "1px", "")>>]}

\* CSSOM objects of the documents getAllCSSRules walks
StyleRule(selector, parses) ==
    [kind |-> "style", selector |-> selector, parses |-> parses]

ImportRule(href) == [kind |-> "import", href |-> href]

LayerBlock(name, items) == [kind |-> "layer", name |-> name, items |-> items]

MediaRule(condition, applies, items) ==
    [kind |-> "media", condition |-> condition, applies |-> applies, items |-> items]

SheetRef(href) == [kind |-> "sheet", href |-> href]

Sheet(accessible, items) == [accessible |-> accessible, items |-> items]

noDocument == [top |-> <<>>, sheets |-> <<>>]

\* the documents: top is document.styleSheets by href, sheets the stylesheet
\* of every href.  Two sheets importing each other with a rule whose
\* declaration block does not parse; two plain sheets; a sheet that is both
\* imported and linked; an inaccessible sheet, linked and imported, beside a
\* layer block and a media block
Documents ==
    {[top |-> <<"a.css">>,
      sheets |-> [h \in {"a.css", "b.css"} |->
          IF h = "a.css"
          THEN Sheet(TRUE, <<StyleRule(".a", TRUE), ImportRule("b.css"),
                             StyleRule("#b", TRUE)>>)
          ELSE Sheet(TRUE, <<StyleRule(".a", FALSE), ImportRule("a.css")>>)]],
     [top |-> <<"a.css", "b.css">>,
      sheets |-> [h \in {"a.css", "b.css"} |->
          IF h = "a.css"
          THEN Sheet(TRUE, <<StyleRule(".a", TRUE)>>)
          ELSE Sheet(TRUE, <<StyleRule("#b", TRUE)>>)]],
     [top |-> <<"chrome-extension://u.css", "a.css", "b.css">>,
      sheets |-> [h \in {"chrome-extension://u.css", "a.css", "b.css"} |->
          IF h = "a.css"
          THEN Sheet(TRUE, <<StyleRule(".a", TRUE), ImportRule("b.css")>>)
          ELSE IF h = "b.css"
          THEN Sheet(TRUE, <<StyleRule("#b", TRUE)>>)
          ELSE Sheet(TRUE, <<StyleRule(".a", TRUE)>>)]],
     [top |-> <<"a.css", "x.css", "b.css">>,
      sheets |-> [h \in {"x.css", "a.css", "b.css"} |->
          IF h = "a.css"
          THEN Sheet(TRUE, <<LayerBlock("L1", <<StyleRule(".a", TRUE)>>),
                             ImportRule("x.css")>>)
          ELSE IF h = "b.css"
          THEN Sheet(TRUE, <<MediaRule("m1", TRUE, <<StyleRule("#b", TRUE)>>)>>)
          ELSE Sheet(FALSE, <<StyleRule(".a", TRUE)>>)]]}

\* the calls of getAllCSSRules
PassIds == {"first", "second"}

\* the declaration block of the rules of the discovery passes
PassDecls == <<Decl("margin-left", "1px", FALSE)>>

\* the identifiers of the sheets of a document
FirstSheet == "inline-style-1"

SheetIds == {FirstSheet, "inline-style-2"}

(***************************************************************************)
(* The state machine.                                                      *)
(***************************************************************************)

\* a call of getAllCSSRules that has not been made
idlePass == [status |-> "idle", doc |-> noDocument, stack |-> <<>>, rules |-> <<>>,
             overlapped |-> FALSE]

idlePair == [status |-> "idle"]

idleMapped == [status |-> "idle"]

Init ==
    /\ globalLayerOrderMap = <<>>
    /\ layerOrderCounter = 0
    /\ allRules = <<>>
    /\ analysis = idleAnalysis
    /\ pair = idlePair
    /\ mapped = idleMapped
    /\ processedSheets = {}
    /\ passes = [p \in PassIds |-> idlePass]

\* getAllCSSRules is called: a new corpus, and the processed identifiers are
\* forgotten; the registry is a module-level constant binding that nothing
\* clears.  The model keeps no result of a resolution against the old corpus.
StartPass ==
    /\ pair.status = "idle"
    /\ allRules' = <<>>
    /\ processedSheets' = {}
    /\ analysis' = idleAnalysis
    /\ UNCHANGED <<globalLayerOrderMap, layerOrderCounter, pair, mapped, passes>>

\* processCSSRules is entered for a sheet: an identifier already processed
\* makes it return at once, a new one is remembered
EnterSheet(identifier) ==
    /\ pair.status = "idle"
    /\ analysis.status = "idle"
    /\ identifier \notin processedSheets
    /\ processedSheets' = processedSheets \cup {identifier}
    /\ UNCHANGED <<globalLayerOrderMap, layerOrderCounter, allRules, analysis,
                   pair, mapped, passes>>

\* mutant of recordedMap: a name already recorded is recorded again
recordedMapOverwrite(name) ==
    [n \in DOMAIN globalLayerOrderMap \cup {name} |->
        IF n = name THEN layerOrderCounter ELSE globalLayerOrderMap[n]]

\* if (!globalLayerOrderMap.has(name)) globalLayerOrderMap.set(name, layerOrderCounter++)
recordedMap(name) ==
    IF layerHas(name) THEN globalLayerOrderMap
    ELSE [n \in DOMAIN globalLayerOrderMap \cup {name} |->
             IF n = name THEN layerOrderCounter ELSE globalLayerOrderMap[n]]

recordedCounter(name) ==
    IF layerHas(name) THEN layerOrderCounter ELSE layerOrderCounter + 1

\* a layer block or a name of a layer statement is met during discovery
RecordLayer(name) ==
    /\ pair.status = "idle"
    /\ analysis.status = "idle"
    /\ processedSheets # {}
    /\ totalLayersOf < MaxLayers
    /\ globalLayerOrderMap' = recordedMap(name)
    /\ layerOrderCounter' = recordedCounter(name)
    /\ UNCHANGED <<allRules, analysis, pair, mapped, processedSheets, passes>>

\* the rule allRules.push records for a style rule
styleRule(selector, decls, layerName, origin, contexts, orderIndex) ==
    [selector |-> selector,
     specificity |-> calculateSpecificity(selector),
     properties |-> [i \in 1..Len(decls) |->
         ruleProperty(decls[i].name, decls[i].value, decls[i].important,
                      "inline", layerName, calculateSpecificity(selector))],
     stylesheetUrl |-> "inline",
     layerName |-> layerName,
     origin |-> origin,
     orderIndex |-> Fin(orderIndex),
     conditionalContexts |-> contexts]

\* discovery meets a style rule, at the top level (layerName undefined) or
\* inside a layer block, whose name is recorded on the way in
AddRule(selector, decls, layerName, origin, contexts) ==
    /\ analysis.status = "idle"
    /\ processedSheets # {}
    /\ Len(allRules) < MaxRules
    /\ layerName # undefined => origin = "author"
    /\ allRules' = Append(allRules,
           styleRule(selector, decls, layerName, origin, contexts, Len(allRules)))
    /\ IF layerName # undefined
       THEN /\ globalLayerOrderMap' = recordedMap(layerName)
            /\ layerOrderCounter' = recordedCounter(layerName)
       ELSE UNCHANGED <<globalLayerOrderMap, layerOrderCounter>>
    /\ UNCHANGED <<analysis, pair, mapped, processedSheets, passes>>

\* resolveCascadeForElement(el, allRules); the model remembers the result of
\* the call before it when a second call resolves the same element
Resolve(el) ==
    /\ \/ analysis.status = "idle"
       \/ /\ analysis.status = "done"
          /\ analysis.previous = idleAnalysis
          /\ analysis.element = el
    /\ analysis' = [call |-> resolveCascadeForElement(el, allRules),
                    element |-> el, status |-> "done",
                    previous |-> IF analysis.status = "idle" THEN idleAnalysis
                                 ELSE analysis.call]
    /\ allRules' = corpusAfterResolve(el, allRules)
    /\ globalLayerOrderMap' = registryAfterResolve
    /\ UNCHANGED <<layerOrderCounter, pair, mapped, processedSheets, passes>>

\* the corpus is frozen by the first resolution
discovering == analysis.status = "idle"

Next ==
    \/ EnterSheet(FirstSheet)
    \/ /\ discovering
       /\ \E selector \in Selectors, decls \in DeclLists,
             layerName \in {undefined} \cup CorpusLayers, origin \in RuleOrigins :
             AddRule(selector, decls, layerName, origin, <<>>)
    \/ /\ discovering
       /\ \E el \in Elements : Resolve(el)

Spec == Init /\ [][Next]_vars

\* the scorer and the comparator on two candidates
Compare(a, b) ==
    /\ pair.status = "idle"
    /\ pair' = [status |-> "done", a |-> a, b |-> b,
                scoreA |-> getCascadeScore(a), scoreB |-> getCascadeScore(b),
                order |-> numSign(compareDeclarations(a, b))]
    /\ UNCHANGED <<globalLayerOrderMap, layerOrderCounter, allRules, analysis, mapped,
                   processedSheets, passes>>

NextScore ==
    \/ EnterSheet(FirstSheet)
    \/ \E name \in LayerNames : RecordLayer(name)
    \/ /\ pair.status = "idle"
       /\ \E a \in ScoreCandidates, b \in ScoreCandidates : Compare(a, b)

SpecScore == Init /\ [][NextScore]_vars

\* one discovery pass, then up to two resolutions of one element
NextMatch ==
    \/ EnterSheet(FirstSheet)
    \/ /\ discovering
       /\ \E t \in MatchRules :
             AddRule(t.selector, t.decls, t.layerName, "author", t.contexts)
    \/ \E el \in MatchElements : Resolve(el)

SpecMatch == Init /\ [][NextMatch]_vars

\* one discovery pass over CaseRules, then up to two resolutions of one of
\* CaseElements
NextElement ==
    \/ EnterSheet(FirstSheet)
    \/ /\ discovering
       /\ \E t \in CaseRules :
             AddRule(t.selector, t.decls, t.layerName, "author", t.contexts)
    \/ \E el \in CaseElements : Resolve(el)

SpecElement == Init /\ [][NextElement]_vars

\* discovery passes over documents of up to two sheets: layer blocks, layer
\* statements and style rules in and out of layers
NextPass ==
    \/ StartPass
    \/ \E identifier \in SheetIds : EnterSheet(identifier)
    \/ \E name \in LayerNames : RecordLayer(name)
    \/ \E layerName \in {undefined} \cup LayerNames :
          AddRule(".a", PassDecls, layerName, "author", <<>>)

SpecPass == Init /\ [][NextPass]_vars

\* mapPropToPhysical(propName, el)
MapProp(propName, el) ==
    /\ mapped.status = "idle"
    /\ mapped' = IF mapPropThrows(propName, el)
                 THEN [status |-> "threw", propName |-> propName, el |-> el]
                 ELSE [status |-> "returned", propName |-> propName, el |-> el,
                       props |-> mapPropToPhysical(propName, el)]
    /\ UNCHANGED <<globalLayerOrderMap, layerOrderCounter, allRules, analysis, pair,
                   processedSheets, passes>>

NextMap ==
    /\ mapped.status = "idle"
    /\ \E propName \in MapNames, el \in MapElements : MapProp(propName, el)

SpecMap == Init /\ [][NextMap]_vars

(***************************************************************************)
(* getAllCSSRules over a document.  processCSSRules is an async function:  *)
(* a call runs synchronously up to its first await, and every await of a   *)
(* nested call suspends the caller until a later microtask, also when the  *)
(* callee returned at once.  A pass keeps the stack of its suspended calls;*)
(* one step of a pass runs from a resumption to the next return of a call. *)
(***************************************************************************)

\* String.prototype.startsWith
StartsWith(s, prefix) ==
    Len(s) >= Len(prefix) /\ SubSeq(s, 1, Len(prefix)) = prefix

\* getOriginFromSheet for a sheet of the document: href is givenHref
getOriginFromSheet(href) ==
    IF \/ StartsWith(href, "chrome-extension://")
       \/ StartsWith(href, "resource://")
       \/ StartsWith(href, "about:")
    THEN "user-agent"
    ELSE "author"

\* mutant of identifierOf: the identifier is qualified by the linked sheet
\* the traversal started from
identifierOfPerLinkedSheet(href, p) == p \o "|" \o href

\* the identifier of a stylesheet with an href
identifierOf(href, p) == href

\* mutant of orderIndexOf: indices start at 1
orderIndexOfOneBased(rules) == Len(rules) + 1

\* orderIndex: allRules.length
orderIndexOf(rules) == Len(rules)

\* mutant of afterAccessFailure: the rules found so far are dropped
afterAccessFailureDropsRules(st) == [st EXCEPT !.rules = <<>>]

\* catch (e) { console.warn(...); return; }
afterAccessFailure(st) == st

\* allRules.push for a style rule of the sheet url; a declaration block that
\* fails to parse leaves properties empty
discoveredRule(item, layerName, contexts, url, p, rules) ==
    LET rule == styleRule(item.selector, IF item.parses THEN PassDecls ELSE <<>>,
                          layerName, getOriginFromSheet(p), contexts,
                          orderIndexOf(rules))
    IN  [rule EXCEPT !.stylesheetUrl = url,
                     !.properties = [i \in DOMAIN rule.properties |->
                                        [rule.properties[i] EXCEPT !.source = url]]]

\* if (!globalLayerOrderMap.has(layerName)) globalLayerOrderMap.set(layerName, layerOrderCounter++)
layerRecorded(st, name) ==
    IF name \in DOMAIN st.map THEN st
    ELSE [st EXCEPT !.map = [n \in DOMAIN st.map \cup {name} |->
                                IF n = name THEN st.counter ELSE st.map[n]],
                    !.counter = st.counter + 1]

\* a suspended call: the rule list it iterates, the index of the next rule,
\* and its arguments currentLayerName, conditionalStack and p.href
Frame(items, url, layerName, contexts, p) ==
    [items |-> items, i |-> 1, url |-> url, layerName |-> layerName,
     contexts |-> contexts, p |-> p]

\* the loop of getAllCSSRules over the sheets of the document
sheetLoop(doc) ==
    <<Frame([k \in 1..Len(doc.top) |-> SheetRef(doc.top[k])], undefined, undefined,
            <<>>, undefined)>>

RECURSIVE processCSSRules(_, _, _)
RECURSIVE processRuleList(_, _, _)
\* the pass runs on from the top of its stack until a call returns; st holds
\* allRules of the pass, processedSheets and the registry.  The stack and st
\* are bound as values, so that each is computed once
processCSSRules(doc, stack, st) ==
    CHOOSE r \in {processRuleList(doc, a.stack, a.st) :
                    a \in {[stack |-> stack, st |-> st]}} : TRUE

\* the for loop over the rules of the call on top of the stack.  Grouping
\* rules get an identifier made of crypto.randomUUID(), which no other call
\* looks up: the model does not keep it
processRuleList(doc, stack, st) ==
    LET f == stack[Len(stack)]
        below == SubSeq(stack, 1, Len(stack) - 1)
    IN  IF f.i > Len(f.items) THEN [stack |-> below, st |-> st]
        ELSE LET item == f.items[f.i]
                 rest == Append(below, [f EXCEPT !.i = f.i + 1])
             IN  IF item.kind = "style"
                 THEN processCSSRules(doc, rest,
                          [st EXCEPT !.rules = Append(st.rules,
                              discoveredRule(item, f.layerName, f.contexts, f.url,
                                             f.p, st.rules))])
                 ELSE IF item.kind = "layer"
                 THEN processCSSRules(doc,
                          Append(rest, Frame(item.items, f.url, item.name, f.contexts, f.p)),
                          layerRecorded(st, item.name))
                 ELSE IF item.kind = "media"
                 THEN processCSSRules(doc,
                          Append(rest, Frame(item.items, f.url, f.layerName,
                                             Append(f.contexts,
                                                    Context("media", item.condition,
                                                            item.applies)),
                                             f.p)),
                          st)
                 ELSE LET p == IF item.kind = "sheet" THEN item.href ELSE f.p
                          identifier == identifierOf(item.href, p)
                          entered == [st EXCEPT !.processed = @ \cup {identifier}]
                      IN  IF identifier \in st.processed
                          THEN [stack |-> rest, st |-> st]
                          ELSE IF ~doc.sheets[item.href].accessible
                          THEN [stack |-> rest, st |-> afterAccessFailure(entered)]
                          ELSE processCSSRules(doc,
                                   Append(rest, Frame(doc.sheets[item.href].items,
                                                      item.href, f.layerName,
                                                      f.contexts, p)),
                                   entered)

\* the state of pass p after it ran from stack with processedSheets = processed
passAfter(p, doc, stack, processed) ==
    processCSSRules(doc, stack,
        [rules |-> passes[p].rules, processed |-> processed,
         map |-> globalLayerOrderMap, counter |-> layerOrderCounter])

\* what a step of pass p leaves: its suspended calls and corpus, or, when the
\* sheet loop has ended, the corpus it returns
Stepped(p, doc, r, overlapped) ==
    /\ passes' = [q \in PassIds |->
           IF q = p
           THEN [status |-> IF r.stack = <<>> THEN "returned" ELSE "running",
                 doc |-> doc, stack |-> r.stack, rules |-> r.st.rules,
                 overlapped |-> overlapped]
           ELSE [passes[q] EXCEPT !.overlapped =
                    @ \/ (overlapped /\ passes[q].status = "running")]]
    /\ processedSheets' = r.st.processed
    /\ globalLayerOrderMap' = r.st.map
    /\ layerOrderCounter' = r.st.counter
    /\ allRules' = IF r.stack = <<>> THEN r.st.rules ELSE allRules
    /\ UNCHANGED <<analysis, pair, mapped>>

\* getAllCSSRules() is called: allRules = [], processedSheets = new Set(), and
\* the first sheet is entered before the call suspends
CallGetAllCSSRules(p, doc) ==
    /\ passes[p].status = "idle"
    /\ \A q \in PassIds : passes[q].status = "running" => passes[q].doc = doc
    /\ Stepped(p, doc, passAfter(p, doc, sheetLoop(doc), {}),
               \E q \in PassIds : passes[q].status = "running")

\* a suspended pass is resumed by the microtask of its await
ResumePass(p) ==
    /\ passes[p].status = "running"
    /\ Stepped(p, passes[p].doc,
               passAfter(p, passes[p].doc, passes[p].stack, processedSheets),
               passes[p].overlapped)

NextDiscovery ==
    \/ \E p \in PassIds, doc \in Documents : CallGetAllCSSRules(p, doc)
    \/ \E p \in PassIds : ResumePass(p)

SpecDiscovery == Init /\ [][NextDiscovery]_vars

\* every suspended pass is resumed: its await is on a promise that resolves
\* without input, and the microtask queue runs every continuation
SpecDiscoveryFair ==
    SpecDiscovery /\ \A p \in PassIds : WF_vars(ResumePass(p))

(***************************************************************************)
(* Properties of the Property Normalizer (SpecMap).                        *)
(***************************************************************************)

\* the inline-start side of the writing modes, written out
InlineStartSide(el) ==
    LET ltr == el.direction = "ltr"
        upright == el.orientation = "upright"
    IN  CASE el.writingMode = "horizontal-tb" -> IF ltr THEN "left" ELSE "right"
          [] el.writingMode = "vertical-rl" -> IF ltr \/ upright THEN "top" ELSE "bottom"
          [] el.writingMode = "vertical-lr" -> IF ltr \/ upright THEN "top" ELSE "bottom"
          [] el.writingMode = "sideways-rl" -> IF ltr THEN "top" ELSE "bottom"
          [] el.writingMode = "sideways-lr" -> IF ltr THEN "bottom" ELSE "top"

\* the block-start side of the writing modes, written out
BlockStartSide(el) ==
    CASE el.writingMode = "horizontal-tb" -> "top"
      [] el.writingMode \in {"vertical-rl", "sideways-rl"} -> "right"
      [] el.writingMode \in {"vertical-lr", "sideways-lr"} -> "left"

OppositeSide(side) ==
    CASE side = "top" -> "bottom" [] side = "bottom" -> "top"
      [] side = "left" -> "right" [] side = "right" -> "left"

\* C9: for each of the five writing modes, both directions and every
\* text-orientation, margin-inline-start expands to exactly one physical
\* property, the margin on the inline-start side; for direction rtl in
\* horizontal-tb that is margin-right
C9_MarginInlineStart ==
    (/\ mapped.status # "idle"
     /\ mapped.propName = "margin-inline-start"
     /\ mapped.el.writingMode \in WritingModes)
    => /\ mapped.status = "returned"
       /\ mapped.props = <<"margin-" \o InlineStartSide(mapped.el)>>
       /\ (mapped.el.direction = "rtl" /\ mapped.el.writingMode = "horizontal-tb")
             => mapped.props = <<"margin-right">>

C9_Witness ==
    /\ mapped.status = "returned"
    /\ mapped.propName = "margin-inline-start"
    /\ mapped.el.direction = "rtl"
    /\ mapped.el.writingMode = "horizontal-tb"
    /\ mapped.props = <<"margin-right">>

\* the logical side a single-side logical name speaks of
SingleSideOf(name, el) ==
    IF Includes(name, "block-start") THEN BlockStartSide(el)
    ELSE IF Includes(name, "block-end") THEN OppositeSide(BlockStartSide(el))
    ELSE IF Includes(name, "inline-start") THEN InlineStartSide(el)
    ELSE OppositeSide(InlineStartSide(el))

IsSingleSideName(name) ==
    \/ Includes(name, "block-start") \/ Includes(name, "block-end")
    \/ Includes(name, "inline-start") \/ Includes(name, "inline-end")

\* C10: every logical property whose name contains block-start, block-end,
\* inline-start or inline-end is mapped, in each of the five writing modes,
\* to exactly one of its four candidate names, the one on the resolved side
C10_SingleSide ==
    (/\ mapped.status # "idle"
     /\ isLogical(mapped.propName)
     /\ IsSingleSideName(mapped.propName)
     /\ mapped.el.writingMode \in WritingModes)
    => /\ mapped.status = "returned"
       /\ Len(mapped.props) = 1
       /\ InSeq(mapped.props[1],
                logicalPropsMaps_[mapFind(logicalPropsMaps_, mapped.propName)][2])
       /\ Includes(mapped.props[1], SingleSideOf(mapped.propName, mapped.el))

\* a plain -block / -inline shorthand with four candidate physical names
PlainAxisName(name) ==
    /\ isLogical(name)
    /\ ~IsSingleSideName(name)
    /\ Includes(name, "block") \/ Includes(name, "inline")
    /\ Len(physicalPropsOf(name)) = 4

\* the start side of the axis a plain shorthand speaks of
AxisStartSide(name, el) ==
    IF Includes(name, "block") THEN BlockStartSide(el) ELSE InlineStartSide(el)

\* the candidates of a name that lie on the axis of a side
OnAxis(name, side) ==
    {c \in {physicalPropsOf(name)[k] : k \in 1..Len(physicalPropsOf(name))} :
        Includes(c, side) \/ Includes(c, OppositeSide(side))}

\* C11: every plain -block / -inline logical shorthand of the table is
\* mapped, in each of the five writing modes, both directions and every
\* orientation, to exactly the two of its four candidates on the resolved
\* axis (the resolved side and its opposite) and to none on the other axis
C11_AxisPair ==
    (/\ mapped.status # "idle"
     /\ PlainAxisName(mapped.propName)
     /\ mapped.el.writingMode \in WritingModes)
    => /\ mapped.status = "returned"
       /\ Len(mapped.props) = 2
       /\ {mapped.props[k] : k \in 1..Len(mapped.props)}
             = OnAxis(mapped.propName, AxisStartSide(mapped.propName, mapped.el))

\* C12: every name the normalizer returns is a terminal physical longhand,
\* neither a key of the logical-property table nor a shorthand; so
\* border-block-start reaches border-top-width where the block starts at the
\* top
C12_TerminalLonghands ==
    mapped.status = "returned" =>
        /\ \A k \in 1..Len(mapped.props) :
              ~isLogical(mapped.props[k]) /\ ~isShorthand(mapped.props[k])
        /\ (/\ mapped.propName = "border-block-start"
            /\ mapped.el.writingMode = "horizontal-tb")
               => InSeq("border-top-width", mapped.props)

(***************************************************************************)
(* Properties of the Cascade Scorer and the comparator (SpecScore).        *)
(***************************************************************************)

Registered(c) == c.layerName # undefined /\ c.layerName \in DOMAIN globalLayerOrderMap

Unlayered(c) == c.layerName = undefined

\* a and b are author declarations in registered layers, a's recorded first
EarlierLayer(a, b) ==
    /\ a._ruleOrigin = "author" /\ b._ruleOrigin = "author"
    /\ Registered(a) /\ Registered(b)
    /\ globalLayerOrderMap[a.layerName] < globalLayerOrderMap[b.layerName]

\* C3: of two author declarations in layers L1 (recorded first) and L2, L1's
\* sorts first when both are important and L2's sorts first when neither is,
\* whatever their specificity and orderIndex and the size of the registry
C3_ImportantReversal ==
    pair.status = "done" =>
        /\ EarlierLayer(pair.a, pair.b) =>
              /\ (pair.a.important /\ pair.b.important) => pair.order < 0
              /\ (~pair.a.important /\ ~pair.b.important) => pair.order > 0
        /\ EarlierLayer(pair.b, pair.a) =>
              /\ (pair.a.important /\ pair.b.important) => pair.order > 0
              /\ (~pair.a.important /\ ~pair.b.important) => pair.order < 0

C3_Witness ==
    /\ pair.status = "done"
    /\ EarlierLayer(pair.a, pair.b)
    /\ totalLayersOf = MaxLayers
    /\ pair.a.important /\ pair.b.important
    /\ pair.a.specificity = <<0, 0, 1, 0>> /\ pair.b.specificity = <<0, 1, 0, 0>>
    /\ pair.a._ruleOrderIndex = Fin(0) /\ pair.b._ruleOrderIndex = Fin(1)
    /\ pair.order < 0

\* a is an unlayered author declaration, b an author declaration in a
\* registered layer
UnlayeredVsLayered(a, b) ==
    /\ a._ruleOrigin = "author" /\ b._ruleOrigin = "author"
    /\ Unlayered(a) /\ Registered(b)

\* C4: an unlayered author declaration sorts before every layered author
\* declaration when neither is important, and after it when both are,
\* whatever their specificity and orderIndex
C4_UnlayeredReversal ==
    pair.status = "done" =>
        /\ UnlayeredVsLayered(pair.a, pair.b) =>
              /\ (~pair.a.important /\ ~pair.b.important) => pair.order < 0
              /\ (pair.a.important /\ pair.b.important) => pair.order > 0
        /\ UnlayeredVsLayered(pair.b, pair.a) =>
              /\ (~pair.a.important /\ ~pair.b.important) => pair.order > 0
              /\ (pair.a.important /\ pair.b.important) => pair.order < 0

C4_Witness ==
    /\ pair.status = "done"
    /\ UnlayeredVsLayered(pair.a, pair.b)
    /\ ~pair.a.important /\ ~pair.b.important
    /\ globalLayerOrderMap[pair.b.layerName] = MaxLayers - 1
    /\ pair.a.specificity = <<0, 0, 1, 0>> /\ pair.b.specificity = <<0, 1, 0, 0>>
    /\ pair.a._ruleOrderIndex = Fin(0) /\ pair.b._ruleOrderIndex = Fin(1)
    /\ pair.order < 0

\* C5: an important transition declaration sorts before every candidate of
\* another origin, a normal transition declaration after every one
C5_TransitionExtremity ==
    pair.status = "done" =>
        /\ (pair.a._ruleOrigin = "transition" /\ pair.b._ruleOrigin # "transition") =>
              IF pair.a.important THEN pair.order < 0 ELSE pair.order > 0
        /\ (pair.b._ruleOrigin = "transition" /\ pair.a._ruleOrigin # "transition") =>
              IF pair.b.important THEN pair.order > 0 ELSE pair.order < 0

C5_Witness ==
    /\ pair.status = "done"
    /\ pair.a._ruleOrigin = "transition" /\ pair.a.important
    /\ pair.b._ruleOrigin = "user-agent" /\ pair.b.important
    /\ pair.a.specificity = <<0, 0, 1, 0>> /\ pair.b.specificity = <<0, 1, 0, 0>>
    /\ pair.order < 0

\* the rank of the origin bands among important declarations
ImportantRank(c) ==
    CASE c._ruleOrigin = "user-agent" -> 5
      [] c._ruleOrigin = "user" -> 4
      [] c._ruleOrigin = "inline" -> 3
      [] c._ruleOrigin = "author" -> 2
      [] c._ruleOrigin = "animation" -> 1

\* C6: among important declarations of non-transition origin the scores are
\* strictly ordered user-agent > user > inline > author > animation, for
\* every registry and every layer of the author declaration
C6_ImportantBands ==
    (/\ pair.status = "done"
     /\ pair.a.important /\ pair.b.important
     /\ pair.a._ruleOrigin # "transition" /\ pair.b._ruleOrigin # "transition"
     /\ ImportantRank(pair.a) > ImportantRank(pair.b))
    => /\ numGreater(pair.scoreA, pair.scoreB)
       /\ pair.order < 0

C6_Witness ==
    /\ pair.status = "done"
    /\ pair.a.important /\ pair.b.important
    /\ pair.a._ruleOrigin = "inline" /\ pair.b._ruleOrigin = "author"
    /\ Registered(pair.b) /\ globalLayerOrderMap[pair.b.layerName] = 0
    /\ totalLayersOf = MaxLayers
    /\ numGreater(pair.scoreA, pair.scoreB)

\* the rank of the bands among normal declarations; within the layered
\* author band a later layer ranks higher
NormalRank(c) ==
    CASE c._ruleOrigin = "animation" -> 6
      [] c._ruleOrigin = "inline" -> 5
      [] c._ruleOrigin = "author" -> IF Registered(c) THEN 3 ELSE 4
      [] c._ruleOrigin = "user" -> 2
      [] c._ruleOrigin = "user-agent" -> 1

NormalAbove(a, b) ==
    \/ NormalRank(a) > NormalRank(b)
    \/ /\ a._ruleOrigin = "author" /\ b._ruleOrigin = "author"
       /\ Registered(a) /\ Registered(b)
       /\ globalLayerOrderMap[a.layerName] > globalLayerOrderMap[b.layerName]

\* C7: among normal declarations of non-transition origin the scores are
\* strictly ordered animation > inline > author unlayered > author layered
\* (later layer above earlier) > user > user-agent, for every registry
C7_NormalBands ==
    (/\ pair.status = "done"
     /\ ~pair.a.important /\ ~pair.b.important
     /\ pair.a._ruleOrigin # "transition" /\ pair.b._ruleOrigin # "transition"
     /\ NormalAbove(pair.a, pair.b))
    => /\ numGreater(pair.scoreA, pair.scoreB)
       /\ pair.order < 0

C7_Witness ==
    /\ pair.status = "done"
    /\ ~pair.a.important /\ ~pair.b.important
    /\ pair.a._ruleOrigin = "author" /\ Unlayered(pair.a)
    /\ pair.b._ruleOrigin = "author" /\ Registered(pair.b)
    /\ globalLayerOrderMap[pair.b.layerName] = MaxLayers - 1
    /\ numGreater(pair.scoreA, pair.scoreB)

\* s1 is lexicographically higher than s2, most significant component first
SpecHigher(s1, s2) ==
    \E i \in 1..4 : s1[i] > s2[i] /\ \A j \in 1..(i - 1) : s1[j] = s2[j]

\* C24: an important declaration of a non-transition origin scores strictly
\* higher than every normal declaration of any origin and sorts before it,
\* for every registry and whatever the specificity, layer and orderIndex
C24_ImportantAboveNormal ==
    pair.status = "done" =>
        /\ (pair.a.important /\ pair.a._ruleOrigin # "transition" /\ ~pair.b.important)
              => numGreater(pair.scoreA, pair.scoreB) /\ pair.order < 0
        /\ (pair.b.important /\ pair.b._ruleOrigin # "transition" /\ ~pair.a.important)
              => numGreater(pair.scoreB, pair.scoreA) /\ pair.order > 0

C24_Witness ==
    /\ pair.status = "done"
    /\ pair.a.important /\ pair.a._ruleOrigin = "animation"
    /\ ~pair.b.important /\ pair.b._ruleOrigin = "animation"
    /\ totalLayersOf = MaxLayers
    /\ pair.a.specificity = <<0, 0, 1, 0>> /\ pair.b.specificity = <<0, 1, 0, 0>>
    /\ pair.a._ruleOrderIndex = Fin(0) /\ pair.b._ruleOrderIndex = Fin(1)
    /\ pair.order < 0

\* a and b have the same origin, not author, and the same importance
SameNonAuthorBand(a, b) ==
    /\ a._ruleOrigin = b._ruleOrigin
    /\ a._ruleOrigin # "author"
    /\ a.important = b.important

\* C30: two declarations of the same origin other than author and of the
\* same importance have equal scores whatever their layers, and the
\* comparator orders them by specificity and then by orderIndex
C30_LayerOnlyForAuthor ==
    (pair.status = "done" /\ SameNonAuthorBand(pair.a, pair.b)) =>
        /\ pair.scoreA = pair.scoreB
        /\ pair.order < 0 <=>
              \/ SpecHigher(pair.a.specificity, pair.b.specificity)
              \/ /\ pair.a.specificity = pair.b.specificity
                 /\ numGreater(pair.a._ruleOrderIndex, pair.b._ruleOrderIndex)

C30_Witness ==
    /\ pair.status = "done"
    /\ SameNonAuthorBand(pair.a, pair.b)
    /\ pair.a._ruleOrigin = "inline" /\ ~pair.a.important
    /\ Registered(pair.a) /\ globalLayerOrderMap[pair.a.layerName] = MaxLayers - 1
    /\ Unlayered(pair.b)
    /\ pair.scoreA = pair.scoreB
    /\ pair.a.specificity = pair.b.specificity
    /\ pair.a._ruleOrderIndex = Fin(0) /\ pair.b._ruleOrderIndex = Fin(1)
    /\ pair.order > 0

(***************************************************************************)
(* Properties of the resolver (Spec).                                      *)
(***************************************************************************)

Returned == analysis.status = "done" /\ analysis.call.status = "returned"

\* the candidates the last resolution collected, in collection order
Collected ==
    allCandidates(matchingRulesOf(analysis.element, allRules), analysis.element)

\* c is strictly above f in (score, specificity, orderIndex)
Outranks(c, f) ==
    LET sc == getCascadeScore(c)
        sf == getCascadeScore(f)
    IN  \/ numGreater(sc, sf)
        \/ sc = sf /\ SpecHigher(c.specificity, f.specificity)
        \/ /\ sc = sf
           /\ c.specificity = f.specificity
           /\ numGreater(c._ruleOrderIndex, f._ruleOrderIndex)

\* C1: every physical property with a candidate has a non-inherited entry in
\* finalProperties, that entry is one of its candidates (stamped active), and
\* no candidate of the property has a higher score, or the same score and a
\* higher specificity, or the same score and specificity and a later orderIndex
C1_WinnerIsMaximal ==
    Returned =>
        LET final == analysis.call.finalProperties
            cands == Collected
        IN  /\ \A i \in 1..Len(cands) :
                  \E k \in 1..Len(final) :
                      final[k].name = cands[i].name /\ ~final[k].inherited
            /\ \A k \in 1..Len(final) :
                  ~final[k].inherited =>
                      /\ \E i \in 1..Len(cands) :
                            final[k] = [cands[i] EXCEPT !.active = TRUE]
                      /\ \A i \in 1..Len(cands) :
                            cands[i].name = final[k].name
                                => ~Outranks(cands[i], final[k])

C1_Witness ==
    /\ Returned
    /\ LET final == analysis.call.finalProperties
           cands == Collected
       IN  \E k \in 1..Len(final) : \E i \in 1..Len(cands) :
               /\ cands[i].name = final[k].name
               /\ getCascadeScore(cands[i]) = getCascadeScore(final[k])
               /\ final[k].specificity = <<0, 1, 0, 0>>
               /\ cands[i].specificity = <<0, 0, 1, 0>>
               /\ numGreater(cands[i]._ruleOrderIndex, final[k]._ruleOrderIndex)

\* C2: any two distinct candidates of one physical property are ordered
\* strictly by the comparator: it never returns a tie for them
C2_StrictOrder ==
    Returned =>
        LET cands == Collected
        IN  \A i, j \in 1..Len(cands) :
                (i # j /\ cands[i].name = cands[j].name)
                    => numSign(compareDeclarations(cands[i], cands[j])) # 0

\* rule i declares margin, the later rule j declares margin-left, with the
\* same origin, layer, specificity and importance
ShorthandThenLonghand(i, j, p, q) ==
    /\ i < j
    /\ allRules[i].origin = allRules[j].origin
    /\ allRules[i].layerName = allRules[j].layerName
    /\ allRules[i].specificity = allRules[j].specificity
    /\ allRules[i].properties[p].name = "margin"
    /\ allRules[j].properties[q].name = "margin-left"
    /\ allRules[i].properties[p].important = allRules[j].properties[q].important

\* what an entry of finalProperties says of its declaration
EntryFacts(f) == <<f.name, f.value, f.originalPropertyName, f._ruleOrderIndex>>

\* C8: when rule A declares margin and a later rule B of the same origin,
\* layer, importance and specificity declares margin-left, A's margin never
\* wins margin-left; and when A and B are all that matches, margin-left is
\* B's value under the name margin-left and the other three margins are A's
\* value under the name margin
C8_ShorthandLonghand ==
    (Returned /\ Len(allRules) >= 2) =>
        \A i, j \in 1..Len(allRules) :
            \A p \in 1..Len(allRules[i].properties), q \in 1..Len(allRules[j].properties) :
                ShorthandThenLonghand(i, j, p, q) =>
                    LET final == analysis.call.finalProperties
                        A == allRules[i]
                        B == allRules[j]
                    IN  /\ \A k \in 1..Len(final) :
                              final[k].name = "margin-left" =>
                                  ~(/\ final[k]._ruleOrderIndex = A.orderIndex
                                    /\ final[k].originalPropertyName = "margin")
                        /\ (/\ Len(allRules) = 2
                            /\ Len(A.properties) = 1 /\ Len(B.properties) = 1
                            /\ ~hasInlineStyles(analysis.element))
                           => {EntryFacts(final[k]) :
                                   k \in {n \in 1..Len(final) : ~final[n].inherited}}
                              = {<<"margin-left", B.properties[q].value,
                                   "margin-left", B.orderIndex>>}
                                \cup {<<m, A.properties[p].value, "margin", A.orderIndex>> :
                                         m \in {"margin-top", "margin-right", "margin-bottom"}}

C8_Witness ==
    /\ Returned
    /\ Len(allRules) = 2
    /\ ~hasInlineStyles(analysis.element)
    /\ ShorthandThenLonghand(1, 2, 1, 1)
    /\ Len(allRules[1].properties) = 1 /\ Len(allRules[2].properties) = 1
    /\ \E k \in 1..Len(analysis.call.finalProperties) :
          /\ analysis.call.finalProperties[k].name = "margin-left"
          /\ analysis.call.finalProperties[k].value = "2px"
    /\ \E k \in 1..Len(analysis.call.finalProperties) :
          /\ analysis.call.finalProperties[k].name = "margin-top"
          /\ analysis.call.finalProperties[k].value = "1px"

\* the selector of the matching rule a candidate or an entry came from
OwnerSelector(c) ==
    LET m == matchingRulesOf(analysis.element, allRules)
    IN  m[CHOOSE r \in 1..Len(m) : m[r].orderIndex = c._ruleOrderIndex].selector

\* what overshadowedBy says when w is the winner
OvershadowedByWinner(w) ==
    [ruleSelector |-> OwnerSelector(w), layerName |-> w.layerName]

\* candidate c comes from declaration prop of rule
CandidateOf(c, rule, prop) ==
    /\ c._ruleOrderIndex = rule.orderIndex
    /\ c.originalPropertyName = prop.name
    /\ c.value = prop.value
    /\ c.important = prop.important

\* C13: every losing candidate is inactive and its overshadowedBy names the
\* selector of the rule owning the winner of its property and the winner's
\* layer; every rule-level declaration stamped inactive that lost a property
\* carries the selector and layer of a winner it lost to
C13_OvershadowedByWinner ==
    Returned =>
        LET lists == analysis.call.considered
            rules == analysis.call.matchingRules
        IN  /\ \A k \in 1..Len(lists) : \A i \in 2..Len(lists[k]) :
                  /\ ~lists[k][i].active
                  /\ lists[k][i].overshadowedBy = OvershadowedByWinner(lists[k][1])
            /\ \A r \in 1..Len(rules) : \A p \in 1..Len(rules[r].properties) :
                  LET prop == rules[r].properties[p]
                      lost == {k \in 1..Len(lists) :
                                 \E i \in 2..Len(lists[k]) :
                                     CandidateOf(lists[k][i], rules[r], prop)}
                  IN  (~prop.active /\ lost # {}) =>
                          \E k \in lost :
                              prop.overshadowedBy = OvershadowedByWinner(lists[k][1])

\* declaration prop of rule is the declaration of a non-inherited entry
WonSomeProperty(final, rule, prop) ==
    \E k \in 1..Len(final) : ~final[k].inherited /\ CandidateOf(final[k], rule, prop)

\* C14: in the returned matchingRules (the synthesized inline rule included)
\* a declaration is stamped active exactly when it is the declaration of some
\* non-inherited entry of finalProperties
C14_ActiveIffWon ==
    Returned =>
        LET final == analysis.call.finalProperties
            rules == analysis.call.matchingRules
        IN  \A r \in 1..Len(rules) : \A p \in 1..Len(rules[r].properties) :
                rules[r].properties[p].active
                    <=> WonSomeProperty(final, rules[r], rules[r].properties[p])

ResolvedTwice == Returned /\ analysis.previous # idleAnalysis

\* what finalProperties says: its keys in order and, for each key, the
\* value, importance, source, layer and original name
FinalFacts(final) ==
    [k \in 1..Len(final) |->
        <<final[k].name, final[k].value, final[k].important, final[k].source,
          final[k].layerName, final[k].originalPropertyName>>]

ContextHolds(context, el) ==
    CASE context.type = "media" -> context.condition \in el.media
      [] context.type = "supports" -> context.condition \in el.supports

\* the selector matches and every context of the stack holds
RuleApplies(rule, el) ==
    /\ rule.selector \in el.matches
    /\ \A i \in 1..Len(rule.conditionalContexts) :
          ContextHolds(rule.conditionalContexts[i], el)

\* the order indices of the rules of a list, in order
OrderIndices(rules) == [r \in 1..Len(rules) |-> rules[r].orderIndex]

\* C19: the rules in matchingRules are exactly the corpus rules whose
\* selector matches the element and whose contexts all hold, in corpus
\* order, and every candidate and every winner comes from one of them
C19_ExactlyApplicableRules ==
    Returned =>
        LET Applies(rule) == RuleApplies(rule, analysis.element)
            expected == SelectSeq(allRules, Applies)
            from == {expected[r].orderIndex : r \in 1..Len(expected)}
            lists == analysis.call.considered
            final == analysis.call.finalProperties
        IN  /\ OrderIndices(analysis.call.matchingRules) = OrderIndices(expected)
            /\ \A r \in 1..Len(expected) :
                  analysis.call.matchingRules[r].selector = expected[r].selector
            /\ \A k \in 1..Len(lists) : \A i \in 1..Len(lists[k]) :
                  lists[k][i]._ruleOrderIndex \in from
            /\ \A k \in 1..Len(final) :
                  ~final[k].inherited => final[k]._ruleOrderIndex \in from

C19_Witness ==
    /\ Returned
    /\ Len(allRules) = 2
    /\ Len(allRules[1].conditionalContexts) = 2
    /\ allRules[1].selector \in analysis.element.matches
    /\ ~RuleApplies(allRules[1], analysis.element)
    /\ RuleApplies(allRules[2], analysis.element)
    /\ OrderIndices(analysis.call.matchingRules) = <<Fin(1)>>

\* the corpus without the rules whose selector is malformed
WellFormedRules ==
    LET Keep(rule) == rule.selector \notin InvalidSelectors
    IN  SelectSeq(allRules, Keep)

\* C20: when the corpus holds a rule with a malformed selector, resolution
\* still returns, and its matchingRules and finalProperties are those of
\* resolving the element against the corpus without that rule
C20_MalformedSelectorSkipped ==
    (analysis.status = "done" /\ WellFormedRules # allRules) =>
        LET without == resolveCascadeForElement(analysis.element, WellFormedRules)
        IN  /\ analysis.call.status = "returned"
            /\ analysis.call.matchingRules = without.matchingRules
            /\ analysis.call.finalProperties = without.finalProperties

C20_Witness ==
    /\ Returned
    /\ Len(allRules) = 2
    /\ allRules[2].selector \in InvalidSelectors
    /\ allRules[2].properties[1].important
    /\ RuleApplies(allRules[1], analysis.element)
    /\ Len(analysis.call.matchingRules) = 1
    /\ \E k \in 1..Len(analysis.call.finalProperties) :
          /\ analysis.call.finalProperties[k].name = "margin-left"
          /\ analysis.call.finalProperties[k]._ruleOrderIndex = Fin(0)

(***************************************************************************)
(* Properties of the Layer Order Registry over discovery passes (SpecPass).*)
(***************************************************************************)

\* the indices handed out are 0 .. counter-1, one per name
RegistryWellFormed ==
    /\ layerOrderCounter = Cardinality(DOMAIN globalLayerOrderMap)
    /\ {globalLayerOrderMap[n] : n \in DOMAIN globalLayerOrderMap}
          = 0..(layerOrderCounter - 1)

\* a step keeps every recorded index and gives a new name the next index
IndexStable ==
    /\ \A n \in DOMAIN globalLayerOrderMap :
          /\ n \in DOMAIN globalLayerOrderMap'
          /\ globalLayerOrderMap'[n] = globalLayerOrderMap[n]
    /\ \A n \in DOMAIN globalLayerOrderMap' \ DOMAIN globalLayerOrderMap :
          globalLayerOrderMap'[n] = layerOrderCounter

\* C15: an index once given to a layer name is the same in every later
\* state, whatever block, statement, sheet or pass declares the name again;
\* a re-declaration consumes no index; new names get the next index, so
\* names are indexed in order of first appearance with distinct indices
C15_StableIndex == []RegistryWellFormed /\ [][IndexStable]_vars

C15_Witness ==
    /\ processedSheets = SheetIds
    /\ Len(allRules) = 2
    /\ allRules[1].layerName = "L1" /\ allRules[2].layerName = "L1"
    /\ DOMAIN globalLayerOrderMap = {"L1", "L2"}
    /\ globalLayerOrderMap["L1"] = 0 /\ globalLayerOrderMap["L2"] = 1
    /\ layerOrderCounter = 2

\* C16: at the start of a discovery pass, when no sheet has been processed
\* yet, the registry is empty, its counter is 0 and the corpus is empty
C16_PassStartResets ==
    processedSheets = {} =>
        /\ globalLayerOrderMap = <<>>
        /\ layerOrderCounter = 0
        /\ allRules = <<>>


(***************************************************************************)
(* Properties of the resolution of CaseElements (SpecElement).             *)
(***************************************************************************)

\* C21: every call of resolveCascadeForElement returns a result; a logical
\* property on an element whose writing-mode is outside the mapping table
\* does not make it throw
C21_AlwaysReturns ==
    analysis.status = "done" => analysis.call.status = "returned"

\* the final entries of the last resolution that are named propName
FinalNamed(propName) ==
    SelectSeq(analysis.call.finalProperties, LAMBDA e : e.name = propName)

\* ancestor k of el has a set, non-initial/unset value of propName equal to
\* the element's own computed value
AncestorProvides(el, propName, k) ==
    LET v == getPropertyValue(el.ancestors[k], propName)
    IN  v \notin {"", "initial", "unset"} /\ v = getPropertyValue(el.computed, propName)

\* the four conditions of the inheritance fallback
FallbackDue(el, propName, cands) ==
    /\ ~\E k \in 1..Len(cands) : cands[k].name = propName
    /\ propName \in inheritableProps
    /\ getPropertyValue(el.computed, propName) \notin {"initial", "unset"}
    /\ \E k \in 1..Len(el.ancestors) : AncestorProvides(el, propName, k)

\* C22: for every property of the computed style, an inherited entry
\* (inherited, not important, active) is recorded exactly when the cascade has
\* no winner for it, it is inheritable, the element's value is not
\* initial/unset and an ancestor has the same set value; its value is that of
\* the nearest such ancestor, and a cascade winner is never replaced
C22_InheritanceFallback ==
    Returned =>
        LET el == analysis.element
            cands == Collected
        IN  \A i \in 1..Len(el.computed) :
               LET P == el.computed[i].name
                   entries == FinalNamed(P)
               IN  IF FallbackDue(el, P, cands)
                   THEN /\ Len(entries) = 1
                        /\ entries[1].inherited /\ entries[1].active
                        /\ ~entries[1].important
                        /\ \E k \in 1..Len(el.ancestors) :
                              /\ AncestorProvides(el, P, k)
                              /\ \A j \in 1..(k - 1) : ~AncestorProvides(el, P, j)
                              /\ entries[1].value = getPropertyValue(el.ancestors[k], P)
                   ELSE \A k \in 1..Len(entries) : ~entries[k].inherited

\* color is inherited from the second ancestor, cursor has a cascade winner
C22_Witness ==
    /\ Returned
    /\ Len(analysis.element.ancestors) = 2
    /\ Len(FinalNamed("color")) = 1 /\ FinalNamed("color")[1].inherited
    /\ FinalNamed("color")[1].value = "red"
    /\ Len(FinalNamed("cursor")) = 1 /\ ~FinalNamed("cursor")[1].inherited
    /\ FinalNamed("font-size") = <<>> /\ FinalNamed("visibility") = <<>>
    /\ FinalNamed("margin-left") = <<>>

\* rule r of the corpus has a context recorded as not applying
RecordedNotApplying(r) ==
    \E c \in 1..Len(allRules[r].conditionalContexts) :
        ~allRules[r].conditionalContexts[c].applies

\* C23: a rule whose conditional stack holds a context recorded with
\* applies = false is not among matchingRules and wins no property
C23_RecordedContextsHold ==
    Returned =>
        \A r \in 1..Len(allRules) :
            RecordedNotApplying(r) =>
                /\ \A m \in 1..Len(analysis.call.matchingRules) :
                      analysis.call.matchingRules[m].orderIndex # allRules[r].orderIndex
                /\ \A k \in 1..Len(analysis.call.finalProperties) :
                      analysis.call.finalProperties[k]._ruleOrderIndex
                          # allRules[r].orderIndex

\* C25: matchingRules ends with the inline rule exactly when the element has
\* inline declarations; that rule has origin inline, orderIndex +Infinity,
\* specificity (1,0,0,0) and one declaration per inline property with its
\* value and importance; no other rule of matchingRules is an inline rule
C25_InlineRule ==
    Returned =>
        LET m == analysis.call.matchingRules
            style == analysis.element.style
            corpusCount == IF Len(style) > 0 THEN Len(m) - 1 ELSE Len(m)
        IN  /\ corpusCount >= 0
            /\ \A j \in 1..corpusCount :
                  /\ m[j].origin # "inline"
                  /\ \E r \in 1..Len(allRules) : allRules[r].orderIndex = m[j].orderIndex
            /\ Len(style) > 0 =>
                  LET inline == m[Len(m)]
                  IN  /\ inline.origin = "inline"
                      /\ inline.orderIndex = Infinity
                      /\ inline.specificity = <<1, 0, 0, 0>>
                      /\ Len(inline.properties) = Len(style)
                      /\ \A i \in 1..Len(style) :
                            /\ inline.properties[i].name = style[i].name
                            /\ inline.properties[i].value = style[i].value
                            /\ inline.properties[i].important
                                  = (style[i].priority = "important")

\* two inline declarations, one important, after two matching corpus rules
C25_Witness ==
    /\ Returned
    /\ Len(analysis.element.style) = 2
    /\ Len(analysis.call.matchingRules) = 3
    /\ analysis.call.matchingRules[3].origin = "inline"
    /\ analysis.call.matchingRules[3].properties[1].important
    /\ ~analysis.call.matchingRules[3].properties[2].important


(***************************************************************************)
(* Properties of discovery over documents (SpecDiscovery).                 *)
(***************************************************************************)

\* C26: in the corpus of every pass the rule at position i has orderIndex i,
\* counted from 0, whatever sheets were skipped and whatever blocks failed
\* to parse
C26_OrderIndexIsPosition ==
    \A p \in PassIds :
        \A i \in 1..Len(passes[p].rules) :
            passes[p].rules[i].orderIndex = Fin(i - 1)

\* a returned corpus that passed an inaccessible sheet, a sheet skipped as
\* already processed and a rule without parsed declarations
C26_Witness ==
    \E p \in PassIds :
        /\ passes[p].status = "returned"
        /\ Len(passes[p].rules) = 3
        /\ passes[p].rules[3].orderIndex = Fin(2)
        /\ passes[p].rules[2].properties = <<>>
        /\ \E q \in PassIds :
              /\ passes[q].status = "returned"
              /\ \E h \in DOMAIN passes[q].doc.sheets :
                    ~passes[q].doc.sheets[h].accessible
              /\ Len(passes[q].rules) = 2
              /\ passes[q].rules[2].orderIndex = Fin(1)

RECURSIVE StyleRuleCount(_)
\* the number of style rules of a rule list, nested blocks included
StyleRuleCount(items) ==
    IF items = <<>> THEN 0
    ELSE (IF items[1].kind = "style" THEN 1
          ELSE IF items[1].kind \in {"layer", "media"} THEN StyleRuleCount(items[1].items)
          ELSE 0) + StyleRuleCount(Tail(items))

\* the number of rules of the corpus that come from the sheet href
RulesFrom(rules, href) ==
    Cardinality({i \in 1..Len(rules) : rules[i].stylesheetUrl = href})

\* pass p returned and no other pass ran while it did
ReturnedAlone(p) == passes[p].status = "returned" /\ ~passes[p].overlapped

\* the corpus of pass p holds the rules of no sheet more than once
EachSheetOnce(p) ==
    \A h \in DOMAIN passes[p].doc.sheets :
        RulesFrom(passes[p].rules, h) <= StyleRuleCount(passes[p].doc.sheets[h].items)

RECURSIVE CorpusFrom(_, _, _)
\* the corpus a pass over doc returns when no other pass runs
CorpusFrom(doc, stack, st) ==
    IF stack = <<>> THEN st.rules
    ELSE LET r == processCSSRules(doc, stack, st)
         IN  CorpusFrom(doc, r.stack, r.st)

CorpusAlone(doc) ==
    CorpusFrom(doc, sheetLoop(doc),
               [rules |-> <<>>, processed |-> {}, map |-> <<>>, counter |-> 0])

Inaccessible(doc) == {h \in DOMAIN doc.sheets : ~doc.sheets[h].accessible}

\* the rule list without the imports of the sheets of gone
WithoutImports(items, gone) ==
    SelectSeq(items, LAMBDA item : ~(item.kind = "import" /\ item.href \in gone))

\* the document without its inaccessible sheets: they are neither linked
\* nor imported
WithoutInaccessible(doc) ==
    LET gone == Inaccessible(doc)
    IN  [top |-> SelectSeq(doc.top, LAMBDA h : h \notin gone),
         sheets |-> [h \in DOMAIN doc.sheets \ gone |->
                        Sheet(TRUE, WithoutImports(doc.sheets[h].items, gone))]]

C29_OverlapComplete ==
    \A p \in PassIds :
        passes[p].status = "returned" => passes[p].rules = CorpusAlone(passes[p].doc)

====
